---- MODULE Spec2Model ----
(***************************************************************************)
(* Model of dev_frontend.py: the retrying API client (APIClient) and the   *)
(* Streamlit session that drives it (main).                                *)
(*                                                                         *)
(* One run of main() is a sequence of steps: Rerun starts the script, which *)
(* walks through its sections (URL field, Test button, Clear button, chat  *)
(* input); each section draws the value its widget gives in this run.  A   *)
(* call of test_connection or send_message is a sub-machine: IssueRequest, *)
(* an answer, Sleep, and so on until the call returns or raises.           *)
(*                                                                         *)
(* A run can end before the end of the script: by st.rerun(), by an        *)
(* exception nothing catches, and at a call into Streamlit, which ends the *)
(* run there when a rerun or stop request of the session is pending.       *)
(*                                                                         *)
(* Spec is the session in which a rerun request waits for the run's next   *)
(* call into Streamlit.  FastRerunSpec adds what Streamlit does with       *)
(* runner.fastReruns: the new run starts while the superseded one is still *)
(* inside its call of test_connection or send_message.                     *)
(*                                                                         *)
(* Strings that the code cuts (the URL) are sequences of characters; the   *)
(* texts it only copies or concatenates are TLA+ strings.  Timestamps      *)
(* (datetime.now()) are left out of the chat messages.                     *)
(***************************************************************************)
EXTENDS Naturals, Sequences, FiniteSets, TLC

VARIABLES
    messages,      \* st.session_state.messages
    api_url,       \* st.session_state.api_url
    api_status,    \* st.session_state.api_status
    api_client,    \* st.session_state.api_client: None or an APIClient
    pc,            \* position of the script run in main()
    prompt,        \* what st.chat_input(...) gave in this run
    cpc,           \* position inside test_connection / send_message
    attempt,       \* the loop variable of the retry loop
    request,       \* the HTTP request awaiting its answer, or None
    ret,           \* the value the call returned (after send_message, the
                    \* `response` of line 236), or None
    outcomes,      \* history: the answers to the attempts of the current call
    delays,        \* history: time.sleep(RETRY_DELAY) calls of the current call
    T_before,      \* history: the transcript when the chat input, or the Clear
                    \* button, was handled in this run
    status_before, \* history: api_status when the chat input was handled
    uuids_made,    \* number of uuid.uuid4() values drawn so far
    superseded     \* the calls that superseded runs are still inside

vars == <<messages, api_url, api_status, api_client, pc, prompt, cpc, attempt, request, ret,
          outcomes, delays, T_before, status_before, uuids_made,
          superseded>>

-----------------------------------------------------------------------------
(* Bounds of the model *)

MaxMsgs == 4        \* a prompt is accepted only while the transcript has room
MaxClients == 2     \* APIClient objects constructed in one behaviour
MaxSuperseded == 1  \* superseded runs that are inside a call at one time
MaxMsgsFastRerun == 2   \* length of the transcript under FastRerunSpec

-----------------------------------------------------------------------------
(* Constants of the program *)

DEFAULT_ERROR_MESSAGE == "An error occurred while communicating with the API"
RETRY_ATTEMPTS == 3
RETRY_DELAY == 1
INVALID_FORMAT_MESSAGE == "Invalid response format from API"
ERROR_MARK == "U+1F6AB "   \* the no-entry glyph and a blank, line 243

None == <<>>
NoPrompt == ""     \* chat_input gives None when nothing was submitted; None
                   \* and "" are both falsy at line 220

-----------------------------------------------------------------------------
(* Inputs *)

Urls == { <<>>, <<"a">>, <<"a", "/">>, <<"b">> }
Prompts == { NoPrompt, "hello" }
Texts == { "hi there", "ok" }

\* What requests.get can raise: a RequestException (ConnectionError,
\* Timeout, ...), whose text the code never reads, or an exception that is
\* none, such as the one for a host with an empty label ("a..b.com"), met
\* in the configured URL or in the target of a redirect: urllib3's
\* LocationParseError, with older versions a UnicodeError.  text is str(e).
Raised ==
    { [kind |-> "RequestException", text |-> ""] }
    \cup { [kind |-> "OtherException", text |-> t] :
             t \in { "Failed to parse: 'a..b.com', label empty or too long",
                     "encoding with 'idna' codec failed (UnicodeError: label empty or too long)" } }

\* What one attempt of test_connection can meet.
ProbeOutcomes ==
    { [kind |-> e.kind, text |-> e.text, status |-> 0] : e \in Raised }
    \cup { [kind |-> "response", text |-> "", status |-> s] : s \in {200, 204, 404, 500} }

\* What response.json() can raise on the body of an answer.  The
\* JSONDecodeError of a body that is no JSON is a RequestException or a
\* plain ValueError, by the installed requests and, with requests 2.27,
\* by the answer (its length and declared encoding); its text says where
\* the parse stopped.  A RecursionError (deeply nested body) and the
\* ValueError of a number of too many digits are never a RequestException.
JsonRaises ==
    { [exc |-> "RequestException", text |-> ""] }
    \cup { [exc |-> "Exception", text |-> t] :
             t \in { "Expecting value: line 1 column 1 (char 0)",
                     "Expecting ':' delimiter: line 1 column 5 (char 4)",
                     "maximum recursion depth exceeded while decoding a JSON array from a unicode string",
                     "Exceeds the limit (4300 digits) for integer string conversion: value has 5000 digits; use sys.set_int_max_str_digits() to increase the limit",
                     "Exceeds the limit (4300) for integer string conversion: value has 5000 digits; use sys.set_int_max_str_digits() to increase the limit" } }

\* What response.json() makes of the body of a /response answer: json is
\* "raises" when it raises (exc and text say what), else the Python type of
\* the value it returns.  has_result is the value of
\* `"result" in response_data` where Python defines it.
Bodies ==
    { [json |-> "raises", has_result |-> FALSE, result |-> "",
       exc |-> e.exc, text |-> e.text] : e \in JsonRaises }
    \cup { [json |-> "dict", has_result |-> TRUE, result |-> r,
            exc |-> "", text |-> ""] : r \in Texts }
    \cup { [json |-> j, has_result |-> h, result |-> "", exc |-> "", text |-> ""] :
             j \in {"list", "str"}, h \in BOOLEAN }
    \cup { [json |-> "dict", has_result |-> FALSE, result |-> "",
            exc |-> "", text |-> ""] }
    \cup { [json |-> j, has_result |-> FALSE, result |-> "", exc |-> "", text |-> ""] :
             j \in {"int", "float", "bool", "NoneType"} }

\* The body of an answer whose body is not read.
NoBody == [json |-> "unread", has_result |-> FALSE, result |-> "", exc |-> "", text |-> ""]

\* What one attempt of send_message can meet.
SendOutcomes ==
    { [kind |-> e.kind, text |-> e.text, status |-> 0, body |-> NoBody] : e \in Raised }
    \cup { [kind |-> "response", text |-> "", status |-> s, body |-> NoBody] :
             s \in {404, 500} }
    \cup { [kind |-> "response", text |-> "", status |-> 200, body |-> b] : b \in Bodies }

-----------------------------------------------------------------------------
(* Pure functions *)

\* str.rstrip('/')
RECURSIVE rstrip(_)
rstrip(s) ==
    IF s # <<>> /\ s[Len(s)] = "/" THEN rstrip(SubSeq(s, 1, Len(s) - 1)) ELSE s

\* APIClient.__init__
APIClient(base_url, uuid) == [base_url |-> rstrip(base_url), sender_id |-> uuid]

\* Response.raise_for_status(): HTTPError for 400 <= status < 600
raises_for_status_5xx(status) == 500 <= status /\ status < 600

raises_for_status(status) == 400 <= status /\ status < 600

\* str(e) of the TypeError that lines 56-57 raise on a body that is no
\* dict: the texts the interpreter can give.  `"result" in 5` names the
\* type; "..."["result"] is worded with and without "not 'str'" (Python
\* from 3.11, up to 3.10).
str_e(response_data) ==
    CASE response_data.json = "list" ->
              { "list indices must be integers or slices, not str" }
      [] response_data.json = "str" ->
              { "string indices must be integers, not 'str'",
                "string indices must be integers" }
      [] OTHER ->
              { "argument of type '" \o response_data.json \o "' is not iterable" }

\* What the try block of test_connection does with one answer: "return"
\* with a value, "retry" (the except branch of line 27), or "raise": what
\* is no RequestException leaves test_connection.
ProbeAttempt_Ok(o) ==
    CASE o.kind = "RequestException" -> [do |-> "retry", value |-> FALSE]
      [] o.kind = "OtherException"   -> [do |-> "raise", value |-> FALSE]
      [] OTHER -> [do |-> "return", value |-> (o.status < 400)]

ProbeAttempt(o) ==
    CASE o.kind = "RequestException" -> [do |-> "retry", value |-> FALSE]
      [] o.kind = "OtherException"   -> [do |-> "raise", value |-> FALSE]
      [] OTHER -> [do |-> "return", value |-> (o.status = 200)]

\* Lines 56-59 on the parsed body, as the set of what they can do:
\* `"result" in response_data` raises on a number, a boolean or null,
\* response_data["result"] raises on a list or a string.
ExtractResult_Get(response_data) ==
    IF response_data.json \in {"int", "float", "bool", "NoneType"}
       \/ (response_data.has_result /\ response_data.json # "dict")
    THEN { [do |-> "raise", value |-> [text |-> t]] : t \in str_e(response_data) }
    ELSE { [do |-> "return", value |-> [response |-> response_data.result]] }

ExtractResult(response_data) ==
    IF response_data.json \in {"int", "float", "bool", "NoneType"}
       \/ (response_data.has_result /\ response_data.json # "dict")
    THEN { [do |-> "raise", value |-> [text |-> t]] : t \in str_e(response_data) }
    ELSE IF response_data.has_result
    THEN { [do |-> "return", value |-> [response |-> response_data.result]] }
    ELSE { [do |-> "return", value |-> [error |-> INVALID_FORMAT_MESSAGE]] }

\* What the try block of send_message can do with one answer (lines
\* 36-66): a RequestException, also one of raise_for_status() or of
\* response.json(), goes to the retrying branch of line 61; any other
\* exception is returned as an error by line 66.
SendAttempt(o) ==
    IF o.kind = "OtherException"
    THEN { [do |-> "return", value |-> [error |-> "Error: " \o o.text]] }
    ELSE IF o.kind = "RequestException" \/ raises_for_status(o.status)
    THEN { [do |-> "retry", value |-> None] }
    ELSE IF o.body.json = "raises"
    THEN IF o.body.exc = "RequestException"
         THEN { [do |-> "retry", value |-> None] }
         ELSE { [do |-> "return", value |-> [error |-> "Error: " \o o.body.text]] }
    ELSE { IF r.do = "raise"
           THEN [do |-> "return", value |-> [error |-> "Error: " \o r.value.text]]
           ELSE r : r \in ExtractResult(o.body) }

\* Lines 242-245: the content of the assistant message.
AssistantContent_WrongKey(response) ==
    IF "error" \in DOMAIN response
    THEN ERROR_MARK \o response.error
    ELSE "No response received"

AssistantContent(response) ==
    IF "error" \in DOMAIN response
    THEN ERROR_MARK \o response.error
    ELSE response.response

ChatMessage(role, content) == [role |-> role, content |-> content]

-----------------------------------------------------------------------------
(* The session after init_session_state, before any widget was touched *)

Init ==
    /\ messages = <<>>
    /\ api_url = <<>>
    /\ api_status = FALSE
    /\ api_client = None
    /\ pc = "idle"
    /\ prompt = NoPrompt
    /\ cpc = "none"
    /\ attempt = 0
    /\ request = None
    /\ ret = None
    /\ outcomes = <<>>
    /\ delays = <<>>
    /\ T_before = <<>>
    /\ status_before = FALSE
    /\ uuids_made = 0
    /\ superseded = <<>>

session == <<messages, api_url, api_status, api_client>>
widgets == <<prompt>>
frame == <<cpc, attempt, request, ret, outcomes, delays>>
history == <<T_before, status_before>>

\* Entering test_connection or send_message: the loop starts at attempt 0.
EnterCall ==
    /\ cpc' = "request"
    /\ attempt' = 0
    /\ request' = None
    /\ ret' = None
    /\ outcomes' = <<>>
    /\ delays' = <<>>

\* The caller has taken the returned value: the frame is gone.
LeaveCall ==
    /\ cpc' = "none"
    /\ attempt' = 0
    /\ request' = None
    /\ ret' = None
    /\ outcomes' = <<>>
    /\ delays' = <<>>

\* send_message has returned into main(): its frame is gone, what it
\* returned is the local variable `response` of line 236.
ReturnToMain ==
    /\ cpc' = "none"
    /\ attempt' = 0
    /\ request' = None
    /\ ret' = ret
    /\ outcomes' = <<>>
    /\ delays' = <<>>

InProbe == pc \in {"url_probe", "test_probe"}
InSend == pc = "chat_send"

-----------------------------------------------------------------------------
(* The retry loop shared by test_connection and send_message *)

\* Lines 28 and 62: the except branch sleeps unless this was the last attempt.
SleepsAfter_OffByOne(a) == a < RETRY_ATTEMPTS - 2

SleepsAfter_Always(a) == a < RETRY_ATTEMPTS

SleepsAfter(a) == a < RETRY_ATTEMPTS - 1

\* Lines 20 and 35: `continue` takes the next value of range(RETRY_ATTEMPTS).
HasNextAttempt_Inclusive(a) == a + 1 <= RETRY_ATTEMPTS

HasNextAttempt(a) == a + 1 < RETRY_ATTEMPTS

\* Lines 31 and 67: what the call returns when the loop runs out.
Exhausted == IF InProbe THEN FALSE ELSE [error |-> DEFAULT_ERROR_MESSAGE]

\* `continue`: the next attempt, or the return after the loop.
Continue ==
    IF HasNextAttempt(attempt)
    THEN /\ attempt' = attempt + 1
         /\ cpc' = "request"
         /\ ret' = None
    ELSE /\ attempt' = attempt
         /\ cpc' = "done"
         /\ ret' = [value |-> Exhausted]

\* The except branch of lines 27-30 and 61-64.
ExceptRequestException ==
    IF SleepsAfter(attempt)
    THEN /\ cpc' = "sleep"
         /\ delays' = Append(delays, RETRY_DELAY)
         /\ UNCHANGED <<attempt, ret>>
    ELSE /\ Continue
         /\ UNCHANGED delays

\* The GET request of lines 22-25 (test_connection of client self) and of
\* lines 47-51 (send_message of client self with this message).
RequestFor(call, self, message) ==
    IF call = "probe"
    THEN [url |-> self.base_url \o <<"/", "test">>, timeout |-> 5,
          params |-> None]
    ELSE [url |-> self.base_url \o <<"/", "response">>, timeout |-> 30,
          params |-> [query |-> message, senderId |-> self.sender_id,
                      customer_info |-> "{}"]]

\* The request of the call the run is inside.
RequestOf == RequestFor(IF InProbe THEN "probe" ELSE "send", api_client, prompt)

\* requests.get is called: the request is on the wire.
IssueRequest ==
    /\ cpc = "request"
    /\ request' = RequestOf
    /\ cpc' = "wait"
    /\ UNCHANGED <<session, pc, widgets, attempt, ret, outcomes, delays, history,
                   uuids_made, superseded>>

\* time.sleep(RETRY_DELAY) is over, then `continue`.
Sleep ==
    /\ cpc = "sleep"
    /\ Continue
    /\ UNCHANGED <<session, pc, widgets, request, outcomes, delays, history,
                   uuids_made, superseded>>

\* One attempt of test_connection gets its answer (lines 22-30).
ProbeAnswer(o) ==
    /\ InProbe
    /\ cpc = "wait"
    /\ request' = None
    /\ outcomes' = Append(outcomes, o)
    /\ CASE ProbeAttempt(o).do = "return" ->
              /\ cpc' = "done"
              /\ ret' = [value |-> ProbeAttempt(o).value]
              /\ UNCHANGED <<attempt, delays>>
         [] ProbeAttempt(o).do = "raise" ->
              /\ cpc' = "raised"
              /\ UNCHANGED <<attempt, ret, delays>>
         [] OTHER -> ExceptRequestException
    /\ UNCHANGED <<session, pc, widgets, history, uuids_made, superseded>>

\* One attempt of send_message gets its answer (lines 47-66).
SendAnswer(o) ==
    /\ InSend
    /\ cpc = "wait"
    /\ request' = None
    /\ outcomes' = Append(outcomes, o)
    /\ \E r \in SendAttempt(o) :
         IF r.do = "return"
         THEN /\ cpc' = "done"
              /\ ret' = [value |-> r.value]
              /\ UNCHANGED <<attempt, delays>>
         ELSE ExceptRequestException
    /\ UNCHANGED <<session, pc, widgets, history, uuids_made, superseded>>

-----------------------------------------------------------------------------
(* One run of main() *)

\* The script has ended: the session waits for the next widget event.
EndOfScript ==
    /\ pc' = "idle"
    /\ prompt' = NoPrompt
    /\ T_before' = <<>>
    /\ status_before' = FALSE

\* A widget event starts a run of the script (lines 144-152).
Rerun ==
    /\ pc = "idle"
    /\ pc' = "url"
    /\ UNCHANGED <<session, widgets, frame, history, uuids_made, superseded>>

\* Lines 160-172: the URL field gives new_api_url.
UrlChange_DropsClientOnEmpty(new_api_url) ==
    /\ pc = "url"
    /\ (new_api_url # api_url /\ new_api_url # <<>>) => uuids_made < MaxClients
    /\ IF new_api_url # api_url
       THEN /\ api_url' = new_api_url
            /\ IF new_api_url # <<>>
               THEN /\ api_client' = APIClient(new_api_url, uuids_made + 1)
                    /\ uuids_made' = uuids_made + 1
                    /\ pc' = "url_probe"
                    /\ EnterCall
               ELSE /\ pc' = "test"
                    /\ api_client' = None
                    /\ UNCHANGED <<uuids_made, frame>>
       ELSE /\ pc' = "test"
            /\ UNCHANGED <<api_url, api_client, uuids_made, frame>>
    /\ UNCHANGED <<messages, api_status, widgets, history, superseded>>

UrlChange(new_api_url) ==
    /\ pc = "url"
    /\ (new_api_url # api_url /\ new_api_url # <<>>) => uuids_made < MaxClients
    /\ IF new_api_url # api_url
       THEN /\ api_url' = new_api_url
            /\ IF new_api_url # <<>>
               THEN /\ api_client' = APIClient(new_api_url, uuids_made + 1)
                    /\ uuids_made' = uuids_made + 1
                    /\ pc' = "url_probe"
                    /\ EnterCall
               ELSE /\ pc' = "test"
                    /\ UNCHANGED <<api_client, uuids_made, frame>>
       ELSE /\ pc' = "test"
            /\ UNCHANGED <<api_url, api_client, uuids_made, frame>>
    /\ UNCHANGED <<messages, api_status, widgets, history, superseded>>

\* Line 172: the result of the probe of the new client is stored.
UrlProbeReturn ==
    /\ pc = "url_probe"
    /\ cpc = "done"
    /\ api_status' = ret.value
    /\ pc' = "test"
    /\ LeaveCall
    /\ UNCHANGED <<messages, api_url, api_client, widgets, history,
                   uuids_made, superseded>>

\* Lines 198-203: the Test button gives test_clicked.
TestButton(test_clicked) ==
    /\ pc = "test"
    /\ IF test_clicked /\ api_client # None
       THEN /\ pc' = "test_probe"
            /\ EnterCall
       ELSE /\ pc' = "clear"
            /\ UNCHANGED frame
    /\ UNCHANGED <<session, widgets, history, uuids_made, superseded>>

\* Line 201: the result of the probe is stored.
TestProbeReturn ==
    /\ pc = "test_probe"
    /\ cpc = "done"
    /\ api_status' = ret.value
    /\ pc' = "clear"
    /\ LeaveCall
    /\ UNCHANGED <<messages, api_url, api_client, widgets, history,
                   uuids_made, superseded>>

\* Lines 207-208 and clear_chat_history, up to its st.rerun().
ClearButton_DropsLastExchange(clear_clicked) ==
    /\ pc = "clear"
    /\ IF clear_clicked
       THEN /\ messages' = SubSeq(messages, 1, Len(messages) - 2)
            /\ T_before' = messages
            /\ pc' = "rerun"
       ELSE /\ pc' = "chat"
            /\ UNCHANGED <<messages, T_before>>
    /\ UNCHANGED <<api_url, api_status, api_client, widgets, frame, status_before,
                   uuids_made, superseded>>

ClearButton(clear_clicked) ==
    /\ pc = "clear"
    /\ IF clear_clicked
       THEN /\ messages' = <<>>
            /\ T_before' = messages
            /\ pc' = "rerun"
       ELSE /\ pc' = "chat"
            /\ UNCHANGED <<messages, T_before>>
    /\ UNCHANGED <<api_url, api_status, api_client, widgets, frame, status_before,
                   uuids_made, superseded>>

\* Lines 220-234: the chat input gives chat_input; the User message is
\* appended, then the guard of line 234 is read.
ChatInput(chat_input) ==
    /\ pc = "chat"
    /\ (chat_input # NoPrompt) => Len(messages) + 2 <= MaxMsgs
    /\ IF chat_input # NoPrompt
       THEN /\ messages' = Append(messages, ChatMessage("user", chat_input))
            /\ IF api_status
               THEN /\ pc' = "chat_spinner"
                    /\ prompt' = chat_input
                    /\ T_before' = messages
                    /\ status_before' = api_status
               ELSE EndOfScript
       ELSE /\ EndOfScript
            /\ UNCHANGED messages
    /\ UNCHANGED <<api_url, api_status, api_client, frame, uuids_made, superseded>>

\* Lines 235-236: st.spinner has sent its element, send_message is called.
Spinner ==
    /\ pc = "chat_spinner"
    /\ pc' = "chat_send"
    /\ EnterCall
    /\ UNCHANGED <<session, widgets, history, uuids_made, superseded>>

\* Lines 241-251: the assistant message made of what send_message returned.
SendReturn_MarksDisconnected ==
    /\ pc = "chat_send"
    /\ cpc = "done"
    /\ messages' = Append(messages, ChatMessage("assistant", AssistantContent(ret.value)))
    /\ api_status' = IF "error" \in DOMAIN ret.value THEN FALSE ELSE api_status
    /\ pc' = "rerun"
    /\ ReturnToMain
    /\ UNCHANGED <<api_url, api_client, widgets, history, uuids_made, superseded>>

SendReturn_Prepends ==
    /\ pc = "chat_send"
    /\ cpc = "done"
    /\ messages' = <<ChatMessage("assistant", AssistantContent(ret.value))>> \o messages
    /\ pc' = "rerun"
    /\ ReturnToMain
    /\ UNCHANGED <<api_url, api_status, api_client, widgets, history, uuids_made, superseded>>

SendReturn ==
    /\ pc = "chat_send"
    /\ cpc = "done"
    /\ messages' = Append(messages, ChatMessage("assistant", AssistantContent(ret.value)))
    /\ pc' = "rerun"
    /\ ReturnToMain
    /\ UNCHANGED <<api_url, api_status, api_client, widgets, history, uuids_made, superseded>>

\* st.rerun() (lines 142 and 253): the run ends; the run it asks for finds
\* every trigger reset and the URL field showing the stored URL.
StRerun ==
    /\ pc = "rerun"
    /\ EndOfScript
    /\ LeaveCall
    /\ UNCHANGED <<session, uuids_made, superseded>>

\* Lines 172 and 201: what test_connection raised is caught nowhere in
\* main(): the run ends there, api_status is not assigned.
UncaughtException ==
    /\ InProbe
    /\ cpc = "raised"
    /\ EndOfScript
    /\ LeaveCall
    /\ UNCHANGED <<session, uuids_made, superseded>>

\* The places where the script calls into Streamlit: before each widget
\* is read, at st.spinner (line 235), where the User message is already
\* appended, and at the use of st.session_state that follows the return of
\* a call (lines 172 and 201, where the result of the probe is to be
\* assigned, and line 247, where the reply is to be appended).
AtStreamlitCall ==
    \/ pc \in {"url", "test", "clear", "chat", "chat_spinner"}
    \/ (InProbe \/ InSend) /\ cpc = "done"

\* Streamlit handles a pending stop or rerun request of the session when
\* the script sends an element or uses st.session_state, and ends the run
\* there: what a call returned is then dropped.
RunInterrupted ==
    /\ AtStreamlitCall
    /\ EndOfScript
    /\ LeaveCall
    /\ UNCHANGED <<session, uuids_made, superseded>>

\* The same between the assignments of lines 169-172, for the request that
\* comes while they run: the run ends at the assignment of line 171, with
\* the new URL stored and the client it has built dropped, or at line 172,
\* where st.session_state.api_client is read, with the new client stored
\* and no probe made.
UrlChangeInterrupted(new_api_url, line) ==
    /\ pc = "url"
    /\ new_api_url # api_url /\ new_api_url # <<>>
    /\ uuids_made < MaxClients
    /\ api_url' = new_api_url
    /\ uuids_made' = uuids_made + 1
    /\ api_client' = IF line = 172 THEN APIClient(new_api_url, uuids_made + 1)
                     ELSE api_client
    /\ EndOfScript
    /\ UNCHANGED <<messages, api_status, frame, superseded>>

Next ==
    \/ Rerun
    \/ \E u \in Urls : UrlChange(u)
    \/ UrlProbeReturn
    \/ \E t \in BOOLEAN : TestButton(t)
    \/ TestProbeReturn
    \/ \E c \in BOOLEAN : ClearButton(c)
    \/ \E p \in Prompts : ChatInput(p)
    \/ Spinner
    \/ SendReturn
    \/ StRerun
    \/ IssueRequest
    \/ Sleep
    \/ \E o \in ProbeOutcomes : ProbeAnswer(o)
    \/ \E o \in SendOutcomes : SendAnswer(o)
    \/ UncaughtException
    \/ RunInterrupted
    \/ \E u \in Urls, l \in {171, 172} : UrlChangeInterrupted(u, l)

Spec == Init /\ [][Next]_vars

-----------------------------------------------------------------------------
(* Runs superseded inside a call *)

\* No widget is disabled while a call is in progress: the chat input only
\* while Disconnected (line 222), the URL field and the buttons never.  A
\* widget event that arrives during a call asks Streamlit for a rerun.
\* With runner.fastReruns, Streamlit's default, the new run is started at
\* once, in a thread of its own, and the running one is asked to stop,
\* which it does at its next call into Streamlit or use of
\* st.session_state: until then it stays inside test_connection or
\* send_message, whose loop has neither.
RunSuperseded ==
    /\ InProbe \/ InSend
    /\ cpc \in {"request", "wait", "sleep"}
    /\ Len(superseded) < MaxSuperseded
    /\ superseded' = Append(superseded,
                            [call |-> IF InProbe THEN "probe" ELSE "send",
                             self |-> api_client, message |-> prompt,
                             cpc |-> cpc, attempt |-> attempt])
    /\ EndOfScript
    /\ LeaveCall
    /\ UNCHANGED <<session, uuids_made>>

\* The list without its i-th element.
Without(q, i) == SubSeq(q, 1, i - 1) \o SubSeq(q, i + 1, Len(q))

\* Whether the answer o sends the attempt into the except branch of line
\* 27 or 61.
Retries(call, o) ==
    IF call = "probe"
    THEN ProbeAttempt(o).do = "retry"
    ELSE \E r \in SendAttempt(o) : r.do = "retry"

\* requests.get is called by the i-th superseded run.
SupersededIssueRequest(i) ==
    /\ superseded[i].cpc = "request"
    /\ superseded' = [superseded EXCEPT ![i].cpc = "wait"]
    /\ UNCHANGED <<session, pc, widgets, frame, history, uuids_made>>

\* The request of the i-th superseded run gets its answer: the loop goes
\* on as in ExceptRequestException, or the call returns or raises; the run
\* then ends at line 172, 201 or 247, where it uses st.session_state,
\* without a change to the session.
SupersededAnswer(i) ==
    /\ superseded[i].cpc = "wait"
    /\ \E o \in (IF superseded[i].call = "probe" THEN ProbeOutcomes ELSE SendOutcomes) :
         superseded' =
             IF Retries(superseded[i].call, o) /\ SleepsAfter(superseded[i].attempt)
             THEN [superseded EXCEPT ![i].cpc = "sleep"]
             ELSE IF Retries(superseded[i].call, o)
                     /\ HasNextAttempt(superseded[i].attempt)
             THEN [superseded EXCEPT ![i].cpc = "request", ![i].attempt = @ + 1]
             ELSE Without(superseded, i)
    /\ UNCHANGED <<session, pc, widgets, frame, history, uuids_made>>

\* time.sleep(RETRY_DELAY) of the i-th superseded run is over, then
\* `continue`.
SupersededSleep(i) ==
    /\ superseded[i].cpc = "sleep"
    /\ superseded' =
         IF HasNextAttempt(superseded[i].attempt)
         THEN [superseded EXCEPT ![i].cpc = "request", ![i].attempt = @ + 1]
         ELSE Without(superseded, i)
    /\ UNCHANGED <<session, pc, widgets, frame, history, uuids_made>>

\* The session with fast reruns; a prompt is accepted while the transcript
\* has fewer than MaxMsgsFastRerun messages.
FastRerunNext ==
    \/ Rerun
    \/ \E u \in Urls : UrlChange(u)
    \/ UrlProbeReturn
    \/ \E t \in BOOLEAN : TestButton(t)
    \/ TestProbeReturn
    \/ \E c \in BOOLEAN : ClearButton(c)
    \/ \E p \in Prompts :
         /\ (p # NoPrompt) => Len(messages) + 2 <= MaxMsgsFastRerun
         /\ ChatInput(p)
    \/ Spinner
    \/ SendReturn
    \/ StRerun
    \/ IssueRequest
    \/ Sleep
    \/ \E o \in ProbeOutcomes : ProbeAnswer(o)
    \/ \E o \in SendOutcomes : SendAnswer(o)
    \/ UncaughtException
    \/ RunInterrupted
    \/ \E u \in Urls, l \in {171, 172} : UrlChangeInterrupted(u, l)
    \/ RunSuperseded
    \/ \E i \in 1..Len(superseded) : SupersededIssueRequest(i)
    \/ \E i \in 1..Len(superseded) : SupersededAnswer(i)
    \/ \E i \in 1..Len(superseded) : SupersededSleep(i)

FastRerunSpec == Init /\ [][FastRerunNext]_vars

\* The steps the script takes by itself: the interpreter goes on from one
\* statement to the next, a sleep of RETRY_DELAY ends, an exception
\* propagates.  Not among them: the widget event that starts a run, the
\* request that ends one early, and the answer to a request, which is the
\* server's to give: timeout=5 and timeout=30 bound the wait for the
\* connection and for each read, not the attempt.
RunStep ==
    \/ \E u \in Urls : UrlChange(u)
    \/ UrlProbeReturn
    \/ \E t \in BOOLEAN : TestButton(t)
    \/ TestProbeReturn
    \/ \E c \in BOOLEAN : ClearButton(c)
    \/ \E p \in Prompts : ChatInput(p)
    \/ Spinner
    \/ SendReturn
    \/ StRerun
    \/ IssueRequest
    \/ Sleep
    \/ UncaughtException

FairSpec == Spec /\ WF_vars(RunStep)

-----------------------------------------------------------------------------
(* What the claims speak of *)

InCall == InProbe \/ InSend
Returned == cpc = "done"
\* The run has appended the reply to its prompt and is at st.rerun().
Replied == pc = "rerun" /\ ret # None
Front(q) == SubSeq(q, 1, Len(q) - 1)
Last(q) == q[Len(q)]

IsTransportFailure(o) == o.kind = "RequestException"
IsFailureStatus(o) == o.kind = "response" /\ 400 <= o.status /\ o.status <= 599
IsSuccessStatus(o) == o.kind = "response" /\ ~(400 <= o.status /\ o.status <= 599)
AllTransportFailures(q) == \A i \in 1..Len(q) : IsTransportFailure(q[i])

\* The answer that makes an attempt succeed: 200 for the probe, a success
\* status with a JSON object that has a result for the send.
Succeeds(o) ==
    IF InProbe
    THEN o.kind = "response" /\ o.status = 200
    ELSE IsSuccessStatus(o) /\ o.body.json = "dict" /\ o.body.has_result

GenericError == [error |-> "An error occurred while communicating with the API"]

\* C1: a call whose attempts all end in a transport failure returns only
\* after exactly 3 attempts, and returns False (probe) or the generic
\* error (send).
C1_AllTransportFailures ==
    (InCall /\ outcomes # <<>> /\ AllTransportFailures(outcomes)) =>
        /\ Returned <=> Len(outcomes) = 3
        /\ Returned => IF InProbe THEN ret.value = FALSE ELSE ret.value = GenericError

C1_Witness ==
    /\ InSend /\ Returned
    /\ Len(outcomes) = 3 /\ AllTransportFailures(outcomes)
    /\ ret.value = GenericError

\* C2: N < 3 transport failures followed by a succeeding attempt: the call
\* returns the success outcome at attempt N+1, after exactly N delays of 1.
C2_SuccessAfterNFailures ==
    (InCall /\ outcomes # <<>> /\ AllTransportFailures(Front(outcomes))
       /\ Succeeds(Last(outcomes))) =>
        /\ Returned
        /\ Len(outcomes) \in {1, 2, 3}
        /\ IF InProbe THEN ret.value = TRUE
                      ELSE ret.value = [response |-> Last(outcomes).body.result]
        /\ Len(delays) = Len(outcomes) - 1
        /\ \A i \in 1..Len(delays) : delays[i] = 1
        /\ request = None

C2_Witness ==
    /\ InSend /\ Returned
    /\ Len(outcomes) = 3 /\ AllTransportFailures(Front(outcomes))
    /\ ret.value = [response |-> "hi there"]
    /\ delays = <<1, 1>>

\* C3: in send_message a failure status counts like a transport failure: it
\* uses up one of the 3 attempts, a delay and a new attempt follow while
\* attempts remain, and 3 such attempts give the generic error.
C3_FailureStatusRetried ==
    (InSend /\ outcomes # <<>>
       /\ (\A i \in 1..Len(outcomes) :
              IsTransportFailure(outcomes[i]) \/ IsFailureStatus(outcomes[i]))
       /\ (\E i \in 1..Len(outcomes) : IsFailureStatus(outcomes[i]))) =>
        /\ Returned <=> Len(outcomes) = 3
        /\ Returned => ret.value = GenericError
        /\ ~Returned =>
             /\ cpc \in {"sleep", "request", "wait"}
             /\ Len(delays) = Len(outcomes)
             /\ attempt = IF cpc = "sleep" THEN Len(outcomes) - 1 ELSE Len(outcomes)

C3_Witness ==
    /\ InSend /\ Returned
    /\ Len(outcomes) = 3
    /\ IsFailureStatus(outcomes[1]) /\ outcomes[1].status = 404
    /\ IsTransportFailure(outcomes[2])
    /\ IsFailureStatus(outcomes[3]) /\ outcomes[3].status = 500
    /\ ret.value = GenericError
    /\ Len(delays) = 2

\* C4: in test_connection the first attempt that gets an HTTP response ends
\* the call with (status = 200), with no further attempt and no further
\* delay, however many transport failures came before.
C4_ProbeResponseEndsCall ==
    (InProbe /\ outcomes # <<>> /\ Last(outcomes).kind = "response") =>
        /\ Returned
        /\ ret.value = (Last(outcomes).status = 200)
        /\ request = None
        /\ Len(delays) = Len(outcomes) - 1

C4_Witness ==
    /\ InProbe /\ Returned
    /\ Len(outcomes) = 3 /\ AllTransportFailures(Front(outcomes))
    /\ Last(outcomes).kind = "response" /\ Last(outcomes).status = 204
    /\ ret.value = FALSE

\* C5: in send_message a success status whose JSON object has no result
\* field ends the call at that attempt with the "Invalid response format"
\* error: no further attempt, no further delay.
C5_MissingResultNotRetried ==
    (InSend /\ outcomes # <<>> /\ IsSuccessStatus(Last(outcomes))
       /\ Last(outcomes).body.json = "dict" /\ ~Last(outcomes).body.has_result) =>
        /\ Returned
        /\ ret.value = [error |-> "Invalid response format from API"]
        /\ request = None
        /\ Len(delays) = Len(outcomes) - 1

C5_Witness ==
    /\ InSend /\ Returned
    /\ Len(outcomes) = 1
    /\ IsSuccessStatus(outcomes[1])
    /\ outcomes[1].body.json = "dict" /\ ~outcomes[1].body.has_result
    /\ ret.value = [error |-> "Invalid response format from API"]
    /\ delays = <<>>

\* C6: in send_message a success status whose body is no JSON ends the
\* call at that attempt with an error that is not the generic one: no
\* delay and no further attempt.
C6_UnparsableBodyNotRetried ==
    (InSend /\ outcomes # <<>> /\ IsSuccessStatus(Last(outcomes))
       /\ Last(outcomes).body.json = "raises") =>
        /\ Returned
        /\ "error" \in DOMAIN ret.value
        /\ ret.value # GenericError
        /\ request = None
        /\ Len(delays) = Len(outcomes) - 1

\* C7: the chat input handled while Disconnected changes nothing: no
\* message is appended and no request is sent.
C7_DisconnectedDispatchNoOp ==
    [][(pc = "chat" /\ ~api_status) => (messages' = messages /\ cpc' = "none")]_vars

C10_StatusIsLastProbe ==
    /\ [](uuids_made = 0 => api_status = FALSE)
    /\ [][(InProbe /\ ~InProbe') => api_status' = (Returned /\ ret.value)]_vars
    /\ [][api_status' # api_status => (InProbe /\ Returned /\ api_status' = ret.value)]_vars

\* C11: once the session has a sender ID it never changes, whatever URL
\* changes, probes, clears and dispatches follow: every send request of
\* the session carries the sender ID of the first one.
C11_SenderIdNeverChanges ==
    [][api_client # None =>
         (api_client' # None /\ api_client'.sender_id = api_client.sender_id)]_vars

\* C12: after clear the transcript is empty whatever it held before, and
\* clear leaves ConnectionStatus, the URL and the client with its sender ID
\* as they were.
C12_ClearEmptiesTranscript ==
    /\ []((pc = "rerun" /\ ret = None) => messages = <<>>)
    /\ [][(pc = "clear" /\ pc' = "rerun") =>
            (messages' = <<>> /\ UNCHANGED <<api_status, api_url, api_client>>)]_vars

C12_Witness ==
    /\ pc = "rerun" /\ ret = None
    /\ Len(T_before) = 4
    /\ messages = <<>>
    /\ api_status = TRUE
    /\ api_client # None /\ api_client.sender_id = 2
    /\ api_url # <<>>

IsPrefix(p, q) == Len(p) <= Len(q) /\ SubSeq(q, 1, Len(p)) = p

\* C13: the transcript is append-only except for clear: every step either
\* keeps the old transcript as a prefix of the new one, or is the clear
\* and leaves the transcript empty.
C13_AppendOnlyExceptClear ==
    [][\/ IsPrefix(messages, messages')
       \/ (pc = "clear" /\ pc' = "rerun" /\ messages' = <<>>)]_vars

C13_Witness ==
    /\ Replied
    /\ Len(messages) = 4
    /\ SubSeq(messages, 1, 2) = T_before
    /\ messages[1].role = "user" /\ messages[2].role = "assistant"
    /\ messages[3].role = "user" /\ messages[4].role = "assistant"
    /\ messages[2].content # messages[4].content

\* The run is inside a dispatch that passed the guard of line 234.
InDispatch == pc \in {"chat_spinner", "chat_send"}

\* The dispatch is over and its User message has its one reply after it.
DispatchCompleted ==
    /\ Replied
    /\ Len(messages) = Len(T_before) + 2
    /\ IsPrefix(T_before, messages)
    /\ messages[Len(messages) - 1] = [role |-> "user", content |-> prompt]
    /\ messages[Len(messages)].role = "assistant"

\* C14: whatever the attempts meet, a dispatch started while Connected
\* comes to its end with exactly one Assistant message right after its User
\* message, a probe comes to its end with a boolean, and the session comes
\* back to where it takes the next operation.
\* (A started run always comes back to the idle session; the only way out
\* of a dispatch is its completion, the only way out of a probe its return.)
C14_EveryFailureAbsorbed ==
    /\ (pc # "idle") ~> (pc = "idle")
    /\ [][(InDispatch /\ ~InDispatch') => DispatchCompleted']_vars
    /\ [][(InProbe /\ pc' # pc) => (Returned /\ ret.value \in BOOLEAN)]_vars

\* C15: in send_message a success status whose body is JSON but no object
\* (an array, a string, a number, null) ends the call at that attempt with
\* the "Invalid response format" error, never with a success.
C15_NonObjectJsonIsMalformed ==
    (InSend /\ outcomes # <<>> /\ IsSuccessStatus(Last(outcomes))
       /\ Last(outcomes).body.json \in {"list", "str", "int", "float", "NoneType"}) =>
        /\ Returned
        /\ ret.value = [error |-> "Invalid response format from API"]
        /\ request = None
        /\ Len(delays) = Len(outcomes) - 1

\* The HTTP requests of the session that await their answer: that of the
\* run, and those of the superseded runs.
Outstanding ==
    (IF request # None THEN {<<0, request>>} ELSE {})
    \cup { <<i, RequestFor(superseded[i].call, superseded[i].self,
                           superseded[i].message)>> :
               i \in { j \in 1..Len(superseded) : superseded[j].cpc = "wait" } }

\* C16: at most one HTTP attempt of the session is outstanding at any
\* moment, so that no probe overlaps a send and no dispatch another one;
\* the request of a run is on the wire only inside its one call and is that
\* call's request, and attempt k+1 is issued only after attempt k was
\* answered with a failure and the delay after it is over.
C16_OneAttemptAtATime ==
    /\ Cardinality(Outstanding) <= 1
    /\ (request # None) <=> (cpc = "wait")
    /\ (cpc \in {"request", "wait", "sleep"}) => InCall
    /\ (pc = "idle") => (cpc = "none" /\ request = None)
    /\ (request # None) =>
         request.url = api_client.base_url
                         \o <<"/", IF InProbe THEN "test" ELSE "response">>
    /\ (cpc \in {"request", "wait"}) =>
         /\ Len(outcomes) = attempt
         /\ Len(delays) = attempt
         /\ \A i \in 1..attempt : ~Succeeds(outcomes[i])
    /\ (cpc = "sleep") =>
         /\ Len(outcomes) = attempt + 1
         /\ Len(delays) = attempt + 1

\* C17: a change of the URL to another non-empty value puts a newly built
\* client with a fresh sender ID in place, runs one probe on it and stores
\* its result as ConnectionStatus, and leaves the transcript alone; a
\* change to the empty URL updates the stored URL and nothing else.
C17_UrlChangeEffects ==
    /\ [][(pc = "url" /\ api_url' # api_url) =>
            IF api_url' # <<>>
            THEN /\ api_client' # None
                 /\ api_client'.sender_id \notin 1..uuids_made
                 /\ pc' = "url_probe" /\ cpc' = "request" /\ attempt' = 0
                 /\ request' = None
                 /\ UNCHANGED <<messages, api_status>>
            ELSE /\ pc' = "test" /\ cpc' = "none"
                 /\ UNCHANGED <<api_client, api_status, messages>>]_vars
    /\ [][(pc = "url_probe") =>
            /\ UNCHANGED <<messages, api_client, api_url>>
            /\ IF pc' # pc
               THEN Returned /\ api_status' = ret.value /\ pc' = "test" /\ cpc' = "none"
               ELSE api_status' = api_status]_vars
    /\ []((pc = "url_probe" /\ request # None) =>
            request.url = api_client.base_url \o <<"/", "test">>)

\* C18: whenever ConnectionStatus is Connected a client exists, so the
\* dispatch that passes the Connected guard calls send_message on a client.
C18_ConnectedHasClient ==
    /\ api_status => api_client # None
    /\ InSend => api_client # None

C18_Witness ==
    /\ InSend /\ cpc = "wait"
    /\ api_status = TRUE
    /\ api_url = <<>>
    /\ api_client # None
    /\ request.params.senderId = api_client.sender_id

\* C19: whenever a client exists its base URL is the configured API URL
\* without its trailing slashes, so probes and sends go to the URL the
\* session shows.
C19_ClientUrlIsConfiguredUrl ==
    (api_client # None) => (api_client.base_url = rstrip(api_url))

\* The requests the current call has issued so far.
Issued == Len(outcomes) + IF cpc = "wait" THEN 1 ELSE 0

\* C20: whatever the attempts meet, a call issues at most 3 requests and
\* sleeps only between two attempts: never before the first, never after
\* the third, at most attempts - 1 times, and exactly twice when the budget
\* is used up.
C20_AttemptAndDelayBudget ==
    (cpc # "none") =>
        /\ Issued <= 3
        /\ attempt <= 2
        /\ \A i \in 1..Len(delays) : delays[i] = 1
        /\ (cpc = "sleep") => Len(outcomes) \in {1, 2}
        /\ (cpc \in {"request", "wait"}) => Len(delays) = attempt
        /\ Returned => Len(delays) = Len(outcomes) - 1
        /\ (Returned /\ Len(outcomes) = 3) => Len(delays) = 2

C20_Witness ==
    /\ InSend /\ Returned
    /\ Len(outcomes) = 3
    /\ IsTransportFailure(outcomes[1])
    /\ IsFailureStatus(outcomes[2])
    /\ IsSuccessStatus(outcomes[3]) /\ outcomes[3].body.json = "raises"
    /\ outcomes[3].body.exc = "RequestException"
    /\ ret.value = GenericError
    /\ delays = <<1, 1>>

====
